---- MODULE Spec2Model ----
(***************************************************************************)
(* Pairing-and-relay engine of mcp-chat (src/mcp_chat): the wait queue,    *)
(* the room registry, the session map `connections` and the long-poll      *)
(* mailboxes `message_queues`, driven by the tool handlers of server.py.   *)
(*                                                                         *)
(* Scheduling.  The handlers are asyncio coroutines.  A handler runs       *)
(* without interruption between two awaits of a manager coroutine; every   *)
(* such await takes the manager's asyncio.Lock and is a point where the    *)
(* event loop may run another handler.  send_notification has no await     *)
(* inside and never suspends.  Each action below is one such segment of a  *)
(* handler, from one suspension point to the next (or to the return).      *)
(*                                                                         *)
(* Identities.  uuid4 values are fresh: the n-th user created has user_id  *)
(* n and connection_id connection_id(n); the n-th ChatRoom object has the  *)
(* generated room_id n.  Room objects live in `heap` and are referred to   *)
(* by reference, because join_room registers one object under two keys.    *)
(***************************************************************************)
EXTENDS Integers, Sequences, FiniteSets, TLC

\* Number of enter_queue / join_room calls (each mints one user).
MaxUsers == 3
\* Number of send_message / wait_for_message / leave_chat / disconnect calls.
MaxCalls == 3
\* Number of handler invocations in all.
MaxOps == 5
\* Number of messages send_message creates.
MaxSends == 2
\* Number of handler invocations that may be between two of their segments at
\* once (a call parked in wait_for runs no code and is not counted).
MaxRunning == 2

Users == 1..MaxUsers
Calls == 1..MaxCalls
\* Room ids a client may choose for join_room besides the ids it was told.
ChosenIds == {101}
None == 0
NoPair == <<>>

VARIABLES
  connections,   \* server.py:29   connection_id -> user_id
  message_queues,\* server.py:32   <<room_id, user_id>> -> wait call owning the Queue
  mailbox,       \* the asyncio.Queue of each wait call in flight
  queue,         \* QueueManager._queue
  rooms,         \* RoomManager._rooms          room_id -> ChatRoom reference
  heap,          \* the ChatRoom objects         reference -> fields
  user_to_room,  \* RoomManager._user_to_room   user_id -> room_id
  ucall,         \* the enter_queue / join_room calls, by the user they mint
  scall,         \* the send / wait / leave / disconnect calls in flight
  last,          \* what the call that ended in the step just taken returned, if any
  added,         \* history: users in the order add_user appended them
  notified,      \* the send_notification calls of the step just taken
  nsent,         \* history: number of messages created (the last message_id)
  sent           \* history: for each message created, what its send found registered

vars == <<connections, message_queues, mailbox, queue, rooms, heap,
          user_to_room, ucall, scall, last, notified, added, nsent, sent>>

----------------------------------------------------------------------------
\* Dictionaries
Put(f, k, v) == [x \in (DOMAIN f) \cup {k} |-> IF x = k THEN v ELSE f[x]]
Pop(f, k) == [x \in (DOMAIN f) \ {k} |-> f[x]]
Get(f, k) == IF k \in DOMAIN f THEN f[k] ELSE None
EmptyMap == [x \in {} |-> None]

\* models.py: User.connection_id, a uuid4 drawn apart from the user_id uuid4
connection_id(u) == u + 10

----------------------------------------------------------------------------
\* models.py ChatRoom
get_partner(room, user_id) ==
  IF room.user1 = user_id THEN room.user2
  ELSE IF room.user2 = user_id THEN room.user1
  ELSE None

\* mutant of has_user: the membership test always passes
has_user_any(room, user_id) == TRUE

has_user(room, user_id) == user_id \in {room.user1, room.user2}

----------------------------------------------------------------------------
\* managers.py QueueManager
add_user(q, user) == [queue |-> Append(q, user), ret |-> Len(q) + 1]

QueueManager_remove_user(q, user_id) ==
  LET kept == SelectSeq(q, LAMBDA u : u # user_id)
  IN [queue |-> kept, ret |-> Len(kept) < Len(q)]

\* mutant of pop_pair: pop() instead of popleft(), the two newest entries
pop_pair_newest(q) ==
  IF Len(q) >= 2
  THEN [queue |-> SubSeq(q, 1, Len(q) - 2), ret |-> <<q[Len(q)], q[Len(q) - 1]>>]
  ELSE [queue |-> q, ret |-> NoPair]

\* mutant of pop_pair: the second user is returned but left in the queue
pop_pair_keeps_second(q) ==
  IF Len(q) >= 2
  THEN [queue |-> Tail(q), ret |-> <<q[1], q[2]>>]
  ELSE [queue |-> q, ret |-> NoPair]

pop_pair(q) ==
  IF Len(q) >= 2
  THEN [queue |-> SubSeq(q, 3, Len(q)), ret |-> <<q[1], q[2]>>]
  ELSE [queue |-> q, ret |-> NoPair]

get_position(q, user_id) ==
  IF \E i \in 1..Len(q) : q[i] = user_id
  THEN CHOOSE i \in 1..Len(q) :
         q[i] = user_id /\ \A j \in 1..(i - 1) : q[j] # user_id
  ELSE None

get_queue_length(q) == Len(q)

----------------------------------------------------------------------------
\* managers.py RoomManager; a registry value is [rooms, heap, user_to_room]
Registry == [rooms |-> rooms, heap |-> heap, user_to_room |-> user_to_room]

\* uuid4 of the next ChatRoom: fresh, never a key of the registry
NewRoomId(reg) == Cardinality(DOMAIN reg.heap) + 1

create_room(reg, user1, user2) ==
  LET id == NewRoomId(reg)
      room == [room_id |-> id, user1 |-> user1, user2 |-> user2, active |-> TRUE]
  IN [rooms |-> Put(reg.rooms, id, id),
      heap |-> Put(reg.heap, id, room),
      user_to_room |-> Put(Put(reg.user_to_room, user1, id), user2, id),
      ret |-> id]

\* a reference to the ChatRoom, or None
get_room(reg, room_id) == Get(reg.rooms, room_id)

get_user_room(reg, user_id) ==
  LET room_id == Get(reg.user_to_room, user_id)
  IN IF room_id # None THEN Get(reg.rooms, room_id) ELSE None

\* mutant of close_room: the closed room is also deleted from the rooms map
close_room_forgets(reg, room_id) ==
  LET ref == Get(reg.rooms, room_id)
  IN IF ref # None
     THEN [rooms |-> Pop(reg.rooms, room_id),
           heap |-> [reg.heap EXCEPT ![ref].active = FALSE],
           user_to_room |-> Pop(Pop(reg.user_to_room, reg.heap[ref].user1),
                                reg.heap[ref].user2),
           ret |-> ref]
     ELSE [rooms |-> reg.rooms, heap |-> reg.heap,
           user_to_room |-> reg.user_to_room, ret |-> None]

\* mutant of close_room: the whole user->room index is cleared
close_room_clears_index(reg, room_id) ==
  LET ref == Get(reg.rooms, room_id)
  IN IF ref # None
     THEN [rooms |-> reg.rooms,
           heap |-> [reg.heap EXCEPT ![ref].active = FALSE],
           user_to_room |-> EmptyMap,
           ret |-> ref]
     ELSE [rooms |-> reg.rooms, heap |-> reg.heap,
           user_to_room |-> reg.user_to_room, ret |-> None]

close_room(reg, room_id) ==
  LET ref == Get(reg.rooms, room_id)
  IN IF ref # None
     THEN [rooms |-> reg.rooms,
           heap |-> [reg.heap EXCEPT ![ref].active = FALSE],
           user_to_room |-> Pop(Pop(reg.user_to_room, reg.heap[ref].user1),
                                reg.heap[ref].user2),
           ret |-> ref]
     ELSE [rooms |-> reg.rooms, heap |-> reg.heap,
           user_to_room |-> reg.user_to_room, ret |-> None]

get_active_room_count(reg) ==
  Cardinality({k \in DOMAIN reg.rooms : reg.heap[reg.rooms[k]].active})

SetRegistry(r) ==
  /\ rooms' = r.rooms
  /\ heap' = r.heap
  /\ user_to_room' = r.user_to_room

----------------------------------------------------------------------------
\* Call records
IdleU == [op |-> "none", pc |-> "idle", rid |-> None, pair |-> NoPair,
          status |-> "none", room_id |-> None, partner |-> None,
          position |-> None, queue_length |-> None]

\* `since` is history: the number of messages created before a wait registered
IdleS == [op |-> "none", pc |-> "idle", cid |-> None, rid |-> None,
          user |-> None, room |-> None, partner |-> None, since |-> None]

NoMsg == [kind |-> "none", id |-> None, sender |-> None]

\* the result of a call: its arguments, the user its client_id resolved to, the
\* outcome, the message sent or received and, for a wait, its `since`
Result(op, cid, rid, user, res, msg, since) ==
  [op |-> op, cid |-> cid, rid |-> rid, user |-> user, res |-> res, msg |-> msg,
   since |-> since]

NoResult == Result("none", None, None, None, "none", NoMsg, None)

DoneS == [IdleS EXCEPT !.pc = "done"]

Return(c, res, msg) ==
  /\ scall' = [scall EXCEPT ![c] = DoneS]
  /\ last' = Result(scall[c].op, scall[c].cid, scall[c].rid, scall[c].user, res, msg,
                    scall[c].since)

Init ==
  /\ connections = EmptyMap
  /\ message_queues = EmptyMap
  /\ mailbox = EmptyMap
  /\ queue = <<>>
  /\ rooms = EmptyMap
  /\ heap = EmptyMap
  /\ user_to_room = EmptyMap
  /\ ucall = [u \in Users |-> IdleU]
  /\ scall = [c \in Calls |-> IdleS]
  /\ last = NoResult
  /\ notified = {}
  /\ added = <<>>
  /\ nsent = 0
  /\ sent = {}

\* the handler invocations that have started and have a segment left to run
Running ==
  Cardinality({u \in Users : ucall[u].pc \notin {"idle", "done"}})
  + Cardinality({c \in Calls : scall[c].pc \notin {"idle", "done", "waiting"}})

\* the handler invocations started so far
Started ==
  Cardinality({u \in Users : ucall[u].pc # "idle"})
  + Cardinality({c \in Calls : scall[c].pc # "idle"})

\* the next user to be minted / the next call
NextUser(u) ==
  /\ ucall[u].pc = "idle" /\ \A v \in 1..(u - 1) : ucall[v].pc # "idle"
  /\ Running < MaxRunning /\ Started < MaxOps
NextCall(c) ==
  /\ scall[c].pc = "idle" /\ \A d \in 1..(c - 1) : scall[d].pc # "idle"
  /\ Running < MaxRunning /\ Started < MaxOps

\* what a client can pass: a client_id some finished call returned (it stops
\* resolving once the session is removed), a room id it was told or chose itself
KnownHandles == {connection_id(u) : u \in {v \in Users : ucall[v].pc = "done"}}
KnownRooms ==
  {k \in DOMAIN rooms : heap[rooms[k]].room_id = k} \cup ChosenIds

----------------------------------------------------------------------------
\* server.py send_notification (493-506): the call is logged and nothing else;
\* a call is recorded as the connection it names, the method and the params
send_notification(conn, method, room_id, about) ==
  [to |-> conn, method |-> method, room_id |-> room_id, about |-> about]

----------------------------------------------------------------------------
\* server.py enter_queue

\* 49-53: mint the user, record the session; suspends on add_user
EnterQueue_Start(u) ==
  /\ NextUser(u)
  /\ connections' = Put(connections, connection_id(u), u)
  /\ ucall' = [ucall EXCEPT ![u] = [IdleU EXCEPT !.op = "enter_queue", !.pc = "add_user"]]
  /\ last' = NoResult
  /\ UNCHANGED <<message_queues, mailbox, queue, rooms, heap, user_to_room, scall, added, nsent, sent>>
  /\ notified' = {}

\* 56: position = await queue_manager.add_user(user); suspends on pop_pair
EnterQueue_AddUser(u) ==
  /\ ucall[u].op = "enter_queue" /\ ucall[u].pc = "add_user"
  /\ queue' = add_user(queue, u).queue
  /\ added' = Append(added, u)
  /\ ucall' = [ucall EXCEPT ![u].pc = "pop_pair"]
  /\ last' = NoResult
  /\ UNCHANGED <<connections, message_queues, mailbox, rooms, heap, user_to_room, scall, nsent, sent>>
  /\ notified' = {}

\* 62-63: pair = await queue_manager.pop_pair()
EnterQueue_PopPair(u) ==
  /\ ucall[u].op = "enter_queue" /\ ucall[u].pc = "pop_pair"
  /\ LET r == pop_pair(queue)
     IN /\ queue' = r.queue
        /\ ucall' = [ucall EXCEPT ![u].pair = r.ret,
                       ![u].pc = IF r.ret # NoPair THEN "create_room" ELSE "get_position"]
  /\ last' = NoResult
  /\ UNCHANGED <<connections, message_queues, mailbox, rooms, heap, user_to_room, scall, added, nsent, sent>>
  /\ notified' = {}

\* 64-98: room = await create_room(user1, user2); notifications; return matched
EnterQueue_CreateRoom(u) ==
  /\ ucall[u].op = "enter_queue" /\ ucall[u].pc = "create_room"
  /\ LET user1 == ucall[u].pair[1]
         user2 == ucall[u].pair[2]
         r == create_room(Registry, user1, user2)
     IN /\ SetRegistry(r)
        /\ ucall' = [ucall EXCEPT ![u].pc = "done", ![u].status = "matched",
                       ![u].room_id = r.heap[r.ret].room_id,
                       ![u].partner = IF u = user1 THEN user2 ELSE user1]
        /\ notified' = {send_notification(connection_id(user1), "chatroom.found",
                                          r.heap[r.ret].room_id, user2),
                        send_notification(connection_id(user2), "chatroom.found",
                                          r.heap[r.ret].room_id, user1)}
  /\ last' = NoResult
  /\ UNCHANGED <<connections, message_queues, mailbox, queue, scall, added, nsent, sent>>

\* 103: "position": await queue_manager.get_position(user.user_id) or 1
EnterQueue_GetPosition(u) ==
  /\ ucall[u].op = "enter_queue" /\ ucall[u].pc = "get_position"
  /\ LET p == get_position(queue, u)
     IN ucall' = [ucall EXCEPT ![u].pc = "get_queue_length",
                    ![u].position = IF p # None THEN p ELSE 1]
  /\ last' = NoResult
  /\ UNCHANGED <<connections, message_queues, mailbox, queue, rooms, heap,
                 user_to_room, scall, added, nsent, sent>>
  /\ notified' = {}

\* 104-106: "queue_length": await queue_manager.get_queue_length(); return waiting
EnterQueue_GetQueueLength(u) ==
  /\ ucall[u].op = "enter_queue" /\ ucall[u].pc = "get_queue_length"
  /\ ucall' = [ucall EXCEPT ![u].pc = "done", ![u].status = "waiting",
                 ![u].queue_length = get_queue_length(queue)]
  /\ last' = NoResult
  /\ UNCHANGED <<connections, message_queues, mailbox, queue, rooms, heap,
                 user_to_room, scall, added, nsent, sent>>
  /\ notified' = {}

----------------------------------------------------------------------------
\* server.py join_room

\* 130-134: mint the user, record the session; suspends on get_room
JoinRoom_Start(u, room_id) ==
  /\ NextUser(u)
  /\ connections' = Put(connections, connection_id(u), u)
  /\ ucall' = [ucall EXCEPT ![u] = [IdleU EXCEPT !.op = "join_room", !.pc = "get_room",
                                                  !.rid = room_id]]
  /\ last' = NoResult
  /\ UNCHANGED <<message_queues, mailbox, queue, rooms, heap, user_to_room, scall, added, nsent, sent>>
  /\ notified' = {}

\* 165-169: the occupants of the room that still have a session
current_users(room, conns) ==
  LET active_user_ids == {conns[h] : h \in DOMAIN conns}
  IN (IF room.user1 # None /\ room.user1 \in active_user_ids
      THEN <<room.user1>> ELSE <<>>)
     \o (IF room.user2 # None /\ room.user2 # room.user1
            /\ room.user2 \in active_user_ids
         THEN <<room.user2>> ELSE <<>>)

\* 190-197: the "[System] ... has joined the chat." message
join_msg(user) == [kind |-> "join", id |-> None, sender |-> None]

\* asyncio.Queue(maxsize=100).put_nowait: QueueFull leaves the queue as it is
MailboxMaxSize == 100
put_nowait(q, m) == IF Len(q) >= MailboxMaxSize THEN q ELSE Append(q, m)

\* 137-218 after get_room returned a room: the rest of the handler has no await
JoinRoom_GetRoom(u) ==
  /\ ucall[u].op = "join_room" /\ ucall[u].pc = "get_room"
  /\ LET room_id == ucall[u].rid
         ref == get_room(Registry, room_id)
     IN IF ref = None
        THEN \* 138-140: suspends on create_room
             /\ ucall' = [ucall EXCEPT ![u].pc = "create_room"]
             /\ UNCHANGED <<mailbox, rooms, heap, user_to_room>>
        ELSE IF ~heap[ref].active
        THEN \* 156-161
             /\ ucall' = [ucall EXCEPT ![u].pc = "done", ![u].status = "error_inactive"]
             /\ UNCHANGED <<mailbox, rooms, heap, user_to_room>>
        ELSE LET cur == current_users(heap[ref], connections)
             IN IF Len(cur) >= 2
                THEN \* 171-176
                     /\ ucall' = [ucall EXCEPT ![u].pc = "done", ![u].status = "error_full"]
                     /\ UNCHANGED <<mailbox, rooms, heap, user_to_room>>
                ELSE \* 179-218
                     LET room2 == IF Len(cur) = 0
                                  THEN [heap[ref] EXCEPT !.user1 = u]
                                  ELSE [heap[ref] EXCEPT !.user2 = u]
                         partner == room2.user1
                         notify == /\ Len(cur) # 0
                                   /\ partner # None
                                   /\ partner \in DOMAIN connections
                                   /\ <<room_id, partner>> \in DOMAIN message_queues
                     IN /\ heap' = [heap EXCEPT ![ref] = room2]
                        /\ mailbox' = IF notify
                                      THEN [mailbox EXCEPT ![message_queues[<<room_id, partner>>]] =
                                              put_nowait(@, join_msg(u))]
                                      ELSE mailbox
                        /\ user_to_room' = Put(user_to_room, u, room_id)
                        /\ rooms' = rooms
                        /\ ucall' = [ucall EXCEPT ![u].pc = "done", ![u].status = "joined",
                                       ![u].room_id = room_id,
                                       ![u].partner = get_partner(room2, u)]
  /\ last' = NoResult
  /\ UNCHANGED <<connections, message_queues, queue, scall, added, nsent, sent>>
  /\ notified' = {}

\* 140-153: room = await create_room(user, user); override the id; return
JoinRoom_CreateRoom(u) ==
  /\ ucall[u].op = "join_room" /\ ucall[u].pc = "create_room"
  /\ LET room_id == ucall[u].rid
         r == create_room(Registry, u, u)
     IN /\ heap' = [r.heap EXCEPT ![r.ret].room_id = room_id]
        /\ rooms' = Put(r.rooms, room_id, r.ret)
        /\ user_to_room' = Put(r.user_to_room, u, room_id)
        /\ ucall' = [ucall EXCEPT ![u].pc = "done", ![u].status = "room_created",
                       ![u].room_id = room_id]
  /\ last' = NoResult
  /\ UNCHANGED <<connections, message_queues, mailbox, queue, scall, added, nsent, sent>>
  /\ notified' = {}

----------------------------------------------------------------------------
\* server.py send_message

\* a call whose client_id resolves to no session ends in its first segment
Begin(c, op, pc, client_id, room_id) ==
  LET user == Get(connections, client_id)
  IN IF user = None
     THEN /\ scall' = [scall EXCEPT ![c] = DoneS]
          /\ last' = Result(op, client_id, room_id, None, "error_user", NoMsg, None)
     ELSE /\ scall' = [scall EXCEPT ![c] = [IdleS EXCEPT !.op = op, !.pc = pc,
                         !.cid = client_id, !.rid = room_id, !.user = user]]
          /\ last' = NoResult

\* messages created or about to be created by the calls in flight
Sending == Cardinality({c \in Calls : scall[c].op = "send_message"})

\* 245-249: user = connections.get(client_id); suspends on get_room
SendMessage_Start(c, client_id, room_id) ==
  /\ NextCall(c)
  /\ nsent + Sending < MaxSends
  /\ Begin(c, "send_message", "get_room", client_id, room_id)
  /\ UNCHANGED <<connections, message_queues, mailbox, queue, rooms, heap,
                 user_to_room, ucall, added, nsent, sent>>
  /\ notified' = {}

\* 269-281: message_data; message_id n is the n-th message created
message_data(n, user) == [kind |-> "msg", id |-> n, sender |-> user]

\* 284-288: the Queues registered for the room by users other than the sender
Recipients(mq, room_id, user) ==
  {mq[k] : k \in {x \in DOMAIN mq : x[1] = room_id /\ x[2] # user}}

\* mutant of Deliver: the message goes to the Queue of every wait in flight for
\* the room, registered or not
DeliverToWaiters(mq, mb, room_id, user, m) ==
  [w \in DOMAIN mb |->
     IF scall[w].rid = room_id /\ scall[w].user # user
     THEN put_nowait(mb[w], m) ELSE mb[w]]

\* 283-304: put_nowait into each of them
Deliver(mq, mb, room_id, user, m) ==
  [w \in DOMAIN mb |->
     IF w \in Recipients(mq, room_id, user) THEN put_nowait(mb[w], m) ELSE mb[w]]

\* the wait_for_message calls of `user` for the room that are parked in wait_for
WaitsInFlight(room_id, user) ==
  {w \in Calls : /\ scall[w].op = "wait_for_message" /\ scall[w].pc = "waiting"
                  /\ scall[w].rid = room_id /\ scall[w].user = user}

\* history record of message n, sent by `user` to `partner`: whether the partner
\* had a Queue registered for the room, and whether it belonged to the one and
\* only wait_for_message call the partner had in flight
SentRecord(n, room_id, user, partner) ==
  [id |-> n, rid |-> room_id, from |-> user, to |-> partner,
   registered |-> <<room_id, partner>> \in DOMAIN message_queues,
   solo |-> /\ <<room_id, partner>> \in DOMAIN message_queues
            /\ WaitsInFlight(room_id, partner) = {message_queues[<<room_id, partner>>]}]

\* mutant of SendError: a send whose partner has no Queue registered for the
\* room is reported to the sender as an error
SendError_without_waiter(reg, ref, user) ==
  IF ref = None THEN "error_room"
  ELSE IF ~reg.heap[ref].active THEN "error_inactive"
  ELSE IF ~has_user(reg.heap[ref], user) THEN "error_member"
  ELSE IF get_partner(reg.heap[ref], user) = None THEN "error_partner"
  ELSE IF \A k \in DOMAIN message_queues : k[2] # get_partner(reg.heap[ref], user)
       THEN "error_partner"
  ELSE "none"

\* 252-266: the checks of send_message on the room get_room returned
SendError(reg, ref, user) ==
  IF ref = None THEN "error_room"
  ELSE IF ~reg.heap[ref].active THEN "error_inactive"
  ELSE IF ~has_user(reg.heap[ref], user) THEN "error_member"
  ELSE IF get_partner(reg.heap[ref], user) = None THEN "error_partner"
  ELSE "none"

\* 252-322: room = await get_room(room_id); checks; delivery; notification; return
SendMessage_GetRoom(c) ==
  /\ scall[c].op = "send_message" /\ scall[c].pc = "get_room"
  /\ LET room_id == scall[c].rid
         user == scall[c].user
         ref == get_room(Registry, room_id)
         err == SendError(Registry, ref, user)
     IN IF err # "none"
        THEN /\ Return(c, err, NoMsg)
             /\ notified' = {}
             /\ UNCHANGED <<mailbox, nsent, sent>>
        ELSE /\ nsent' = nsent + 1
             /\ mailbox' = Deliver(message_queues, mailbox, room_id, user,
                                   message_data(nsent + 1, user))
             /\ sent' = sent \cup {SentRecord(nsent + 1, room_id, user,
                                               get_partner(heap[ref], user))}
             /\ notified' = {send_notification(
                                connection_id(get_partner(heap[ref], user)),
                                "message.received", room_id, user)}
             /\ Return(c, "success", message_data(nsent + 1, user))
  /\ UNCHANGED <<connections, message_queues, queue, rooms, heap, user_to_room,
                 ucall, added>>

----------------------------------------------------------------------------
\* server.py wait_for_message

\* 422-426: user = connections.get(client_id); suspends on get_room
WaitForMessage_Start(c, client_id, room_id) ==
  /\ NextCall(c)
  /\ Begin(c, "wait_for_message", "get_room", client_id, room_id)
  /\ UNCHANGED <<connections, message_queues, mailbox, queue, rooms, heap,
                 user_to_room, ucall, added, nsent, sent>>
  /\ notified' = {}

\* 429-438: the checks of wait_for_message on the room get_room returned
WaitError(reg, ref, user) ==
  IF ref = None THEN "error_room"
  ELSE IF ~reg.heap[ref].active THEN "error_inactive"
  ELSE IF ~has_user(reg.heap[ref], user) THEN "error_member"
  ELSE "none"

\* mutant of RegisterWait: a Queue already registered for (room, user) is kept
RegisterWait_keeps_earlier(mq, room_id, user, c) ==
  IF <<room_id, user>> \in DOMAIN mq THEN mq ELSE Put(mq, <<room_id, user>>, c)

\* 441-446: message_queues[room_id][user_id] = a new Queue, replacing any other
RegisterWait(mq, room_id, user, c) == Put(mq, <<room_id, user>>, c)

\* mutant of UnregisterWait: no cleanup
UnregisterWait_skipped(mq, room_id, user) == mq

\* 483-490: the finally block: delete whatever is registered for (room, user)
UnregisterWait(mq, room_id, user) == Pop(mq, <<room_id, user>>)

\* 429-456: room = await get_room(room_id); checks; register; suspend in wait_for
WaitForMessage_GetRoom(c) ==
  /\ scall[c].op = "wait_for_message" /\ scall[c].pc = "get_room"
  /\ LET room_id == scall[c].rid
         user == scall[c].user
         ref == get_room(Registry, room_id)
         err == WaitError(Registry, ref, user)
     IN IF err # "none"
        THEN /\ Return(c, err, NoMsg)
             /\ UNCHANGED <<message_queues, mailbox>>
        ELSE /\ message_queues' = RegisterWait(message_queues, room_id, user, c)
             /\ mailbox' = Put(mailbox, c, <<>>)
             /\ scall' = [scall EXCEPT ![c].pc = "waiting", ![c].room = ref,
                                       ![c].since = nsent]
             /\ last' = NoResult
  /\ UNCHANGED <<connections, queue, rooms, heap, user_to_room, ucall, added, nsent, sent>>
  /\ notified' = {}

\* the call leaves wait_for with `res`; the finally block runs; the Queue is garbage
WaitExit(c, res, m) ==
  /\ message_queues' = UnregisterWait(message_queues, scall[c].rid, scall[c].user)
  /\ mailbox' = Pop(mailbox, c)
  /\ Return(c, res, m)
  /\ UNCHANGED <<connections, queue, rooms, heap, user_to_room, ucall, added, nsent, sent>>
  /\ notified' = {}

\* 454-467: message_queue.get() yields the oldest message put into the Queue
WaitForMessage_Message(c) ==
  /\ scall[c].op = "wait_for_message" /\ scall[c].pc = "waiting"
  /\ mailbox[c] # <<>>
  /\ WaitExit(c, "message", Head(mailbox[c]))

\* 469-471: the deadline passes before the call is resumed with a message
WaitForMessage_Timeout(c) ==
  /\ scall[c].op = "wait_for_message" /\ scall[c].pc = "waiting"
  /\ WaitExit(c, "timeout", NoMsg)

\* 473-477: the caller's request is cancelled; CancelledError is re-raised
WaitForMessage_Cancelled(c) ==
  /\ scall[c].op = "wait_for_message" /\ scall[c].pc = "waiting"
  /\ WaitExit(c, "cancelled", NoMsg)

----------------------------------------------------------------------------
\* server.py leave_chat

\* 340-342: user = connections.get(client_id); suspends on get_room
LeaveChat_Start(c, client_id, room_id) ==
  /\ NextCall(c)
  /\ Begin(c, "leave_chat", "get_room", client_id, room_id)
  /\ UNCHANGED <<connections, message_queues, mailbox, queue, rooms, heap,
                 user_to_room, ucall, added, nsent, sent>>
  /\ notified' = {}

\* 345-351: the checks of leave_chat on the room get_room returned
LeaveError(reg, ref, user) ==
  IF ref = None THEN "error_room"
  ELSE IF ~has_user(reg.heap[ref], user) THEN "error_member"
  ELSE "none"

\* 345-354: room = await get_room(room_id); membership; partner; suspends on close_room
LeaveChat_GetRoom(c) ==
  /\ scall[c].op = "leave_chat" /\ scall[c].pc = "get_room"
  /\ LET user == scall[c].user
         ref == get_room(Registry, scall[c].rid)
         err == LeaveError(Registry, ref, user)
     IN IF err # "none"
        THEN Return(c, err, NoMsg)
        ELSE /\ scall' = [scall EXCEPT ![c].pc = "close_room", ![c].room = ref,
                                       ![c].partner = get_partner(heap[ref], user)]
             /\ last' = NoResult
  /\ UNCHANGED <<connections, message_queues, mailbox, queue, rooms, heap,
                 user_to_room, ucall, added, nsent, sent>>
  /\ notified' = {}

\* 366-374: the "[System] Your chat partner has left" message
disconnect_msg == [kind |-> "disconnect", id |-> None, sender |-> None]

\* 357-388: await close_room(room_id); tell the partner; return
LeaveChat_CloseRoom(c) ==
  /\ scall[c].op = "leave_chat" /\ scall[c].pc = "close_room"
  /\ LET room_id == scall[c].rid
         partner == scall[c].partner
     IN /\ SetRegistry(close_room(Registry, room_id))
        /\ mailbox' = IF partner # None /\ <<room_id, partner>> \in DOMAIN message_queues
                      THEN [mailbox EXCEPT ![message_queues[<<room_id, partner>>]] =
                              put_nowait(@, disconnect_msg)]
                      ELSE mailbox
        /\ notified' = IF partner # None
                       THEN {send_notification(connection_id(partner),
                                               "partner.disconnected", room_id, None)}
                       ELSE {}
        /\ Return(c, "success", NoMsg)
  /\ UNCHANGED <<connections, message_queues, queue, ucall, added, nsent, sent>>

----------------------------------------------------------------------------
\* server.py handle_disconnect

\* 511-513: user = connections.get(connection_id); suspends on queue remove_user
Disconnect_Start(c, conn) ==
  /\ NextCall(c)
  /\ Begin(c, "disconnect", "remove_user", conn, None)
  /\ UNCHANGED <<connections, message_queues, mailbox, queue, rooms, heap,
                 user_to_room, ucall, added, nsent, sent>>
  /\ notified' = {}

\* 516: await queue_manager.remove_user(user.user_id)
Disconnect_QueueRemove(c) ==
  /\ scall[c].op = "disconnect" /\ scall[c].pc = "remove_user"
  /\ queue' = QueueManager_remove_user(queue, scall[c].user).queue
  /\ scall' = [scall EXCEPT ![c].pc = "get_user_room"]
  /\ last' = NoResult
  /\ UNCHANGED <<connections, message_queues, mailbox, rooms, heap, user_to_room,
                 ucall, added, nsent, sent>>
  /\ notified' = {}

\* managers.py 97-98 (RoomManager.remove_user): room = await get_user_room(user_id);
\* without a room, server.py 520-532 follow at once
Disconnect_GetUserRoom(c) ==
  /\ scall[c].op = "disconnect" /\ scall[c].pc = "get_user_room"
  /\ LET ref == get_user_room(Registry, scall[c].user)
     IN IF ref = None
        THEN /\ connections' = Pop(connections, scall[c].cid)
             /\ Return(c, "no_room", NoMsg)
        ELSE /\ connections' = connections
             /\ scall' = [scall EXCEPT ![c].pc = "close_room", ![c].room = ref]
             /\ last' = NoResult
  /\ UNCHANGED <<message_queues, mailbox, queue, rooms, heap, user_to_room, ucall,
                 added, nsent, sent>>
  /\ notified' = {}

\* managers.py 99-100: await close_room(room.room_id); server.py 520-532: the
\* partner is notified if the room object is still active; the session is removed
Disconnect_CloseRoom(c) ==
  /\ scall[c].op = "disconnect" /\ scall[c].pc = "close_room"
  /\ LET ref == scall[c].room
         r == close_room(Registry, heap[ref].room_id)
         partner == get_partner(r.heap[ref], scall[c].user)
     IN /\ SetRegistry(r)
        /\ notified' = IF r.heap[ref].active /\ partner # None
                       THEN {send_notification(connection_id(partner),
                                               "partner.disconnected",
                                               r.heap[ref].room_id, None)}
                       ELSE {}
        /\ Return(c, IF r.heap[ref].active /\ partner # None
                     THEN "notified" ELSE "closed", NoMsg)
  /\ connections' = Pop(connections, scall[c].cid)
  /\ UNCHANGED <<message_queues, mailbox, queue, ucall, added, nsent, sent>>

----------------------------------------------------------------------------
Next ==
  \/ \E u \in Users : EnterQueue_Start(u)
  \/ \E u \in Users : EnterQueue_AddUser(u)
  \/ \E u \in Users : EnterQueue_PopPair(u)
  \/ \E u \in Users : EnterQueue_CreateRoom(u)
  \/ \E u \in Users : EnterQueue_GetPosition(u)
  \/ \E u \in Users : EnterQueue_GetQueueLength(u)
  \/ \E u \in Users, r \in KnownRooms : JoinRoom_Start(u, r)
  \/ \E u \in Users : JoinRoom_GetRoom(u)
  \/ \E u \in Users : JoinRoom_CreateRoom(u)
  \/ \E c \in Calls, h \in KnownHandles, r \in KnownRooms : SendMessage_Start(c, h, r)
  \/ \E c \in Calls : SendMessage_GetRoom(c)
  \/ \E c \in Calls, h \in KnownHandles, r \in KnownRooms : WaitForMessage_Start(c, h, r)
  \/ \E c \in Calls : WaitForMessage_GetRoom(c)
  \/ \E c \in Calls : WaitForMessage_Message(c)
  \/ \E c \in Calls : WaitForMessage_Timeout(c)
  \/ \E c \in Calls : WaitForMessage_Cancelled(c)
  \/ \E c \in Calls, h \in KnownHandles, r \in KnownRooms : LeaveChat_Start(c, h, r)
  \/ \E c \in Calls : LeaveChat_GetRoom(c)
  \/ \E c \in Calls : LeaveChat_CloseRoom(c)
  \/ \E c \in Calls, h \in KnownHandles : Disconnect_Start(c, h)
  \/ \E c \in Calls : Disconnect_QueueRemove(c)
  \/ \E c \in Calls : Disconnect_GetUserRoom(c)
  \/ \E c \in Calls : Disconnect_CloseRoom(c)

Spec == Init /\ [][Next]_vars

----------------------------------------------------------------------------
\* Steps of the calls, as seen on a transition
Waiting(q) == {q[i] : i \in 1..Len(q)}
ArrivalIndex(u) == CHOOSE i \in 1..Len(added) : added[i] = u
EarlierWaiting(q, u) == {v \in Waiting(q) : ArrivalIndex(v) < ArrivalIndex(u)}

PopPairStep(u) ==
  ucall[u].op = "enter_queue" /\ ucall[u].pc = "pop_pair" /\ ucall'[u].pc # "pop_pair"
BeginStep(c) == scall[c].pc = "idle" /\ scall'[c].pc # "idle"
SendChecksStep(c) ==
  scall[c].op = "send_message" /\ scall[c].pc = "get_room" /\ scall'[c].pc = "done"
WaitChecksStep(c) ==
  scall[c].op = "wait_for_message" /\ scall[c].pc = "get_room" /\ scall'[c].pc # "get_room"
WaitExitStep(c) ==
  scall[c].op = "wait_for_message" /\ scall[c].pc = "waiting" /\ scall'[c].pc = "done"

Errors == {"error_user", "error_room", "error_inactive", "error_member", "error_partner"}
NonErrors == {"success", "message", "timeout"}

\* the room registered under room_id exists, is active and has `user` in a slot
Occupies(room_id, user) ==
  /\ room_id \in DOMAIN rooms
  /\ heap[rooms[room_id]].active
  /\ user \in {heap[rooms[room_id]].user1, heap[rooms[room_id]].user2}

\* state PAIRED: active, with two distinct occupants
Paired(room_id) ==
  /\ room_id \in DOMAIN rooms
  /\ heap[rooms[room_id]].active
  /\ heap[rooms[room_id]].user1 # None
  /\ heap[rooms[room_id]].user2 # None
  /\ heap[rooms[room_id]].user1 # heap[rooms[room_id]].user2

MessageIds(q) == {q[i].id : i \in {j \in 1..Len(q) : q[j].kind = "msg"}}

----------------------------------------------------------------------------
\* C1: every successful pop_pair returns the two earliest-added users still in
\* the queue, oldest first, and leaves only later arrivals waiting, in arrival
\* order; with fewer than two users waiting it returns none and leaves the queue
\* as it is.
C1_FifoPairing ==
  [][\A u \in Users : PopPairStep(u) =>
       IF Cardinality(Waiting(queue)) >= 2
       THEN LET p == ucall'[u].pair
            IN /\ p # NoPair
               /\ {p[1], p[2]} \subseteq Waiting(queue)
               /\ EarlierWaiting(queue, p[1]) = {}
               /\ EarlierWaiting(queue, p[2]) = {p[1]}
               /\ Waiting(queue') = Waiting(queue) \ {p[1], p[2]}
               /\ \A i, j \in 1..Len(queue') :
                    i < j => ArrivalIndex(queue'[i]) < ArrivalIndex(queue'[j])
       ELSE ucall'[u].pair = NoPair /\ queue' = queue]_vars

\* C1 witness: a pair was popped after the first arrival had been removed from
\* the queue.
C1_Witness ==
  \E u \in Users : /\ ucall[u].pair # NoPair
                   /\ added[1] \notin {ucall[u].pair[1], ucall[u].pair[2]}

\* C2: no user is in the wait queue and in a slot of an active room at once, no
\* user id is in the queue twice, and a user paired by enter_queue has no
\* position in the queue and is not counted in its length.
C2_QueuedXorRoomed ==
  /\ \A i, j \in 1..Len(queue) : i # j => queue[i] # queue[j]
  /\ \A k \in DOMAIN rooms :
       heap[rooms[k]].active =>
         {heap[rooms[k]].user1, heap[rooms[k]].user2} \cap Waiting(queue) = {}
  /\ \A u \in Users :
       ucall[u].pair # NoPair =>
         /\ get_position(queue, ucall[u].pair[1]) = None
         /\ get_position(queue, ucall[u].pair[2]) = None
         /\ get_queue_length(queue)
              = Cardinality(Waiting(queue) \ {ucall[u].pair[1], ucall[u].pair[2]})

\* C2 witness: two users are matched in an active room while a third waits.
C2_Witness ==
  \E u \in Users : /\ ucall[u].status = "matched"
                   /\ Paired(ucall[u].room_id)
                   /\ queue # <<>>

\* C3: send_message and wait_for_message go on to a non-error result exactly
\* when the client_id resolved to a session when it was looked up and, when the
\* room is looked up, it exists, is active and has that user in a slot; every
\* other call returns an error, puts no message and registers no mailbox.
C3_MembershipDecides ==
  [][\A c \in Calls :
       /\ (BeginStep(c) /\ (scall'[c].op \in {"send_message", "wait_for_message"}
                            \/ last'.op \in {"send_message", "wait_for_message"})) =>
            LET client_id == IF scall'[c].pc = "done" THEN last'.cid ELSE scall'[c].cid
            IN /\ (scall'[c].pc # "done") <=> (client_id \in DOMAIN connections)
               /\ scall'[c].pc # "done" => scall'[c].user = connections[client_id]
               /\ scall'[c].pc = "done" => last'.res = "error_user"
               /\ mailbox' = mailbox /\ message_queues' = message_queues
       /\ SendChecksStep(c) =>
            /\ (last'.res = "success") <=> Occupies(scall[c].rid, scall[c].user)
            /\ last'.res # "success" =>
                 /\ last'.res \in Errors
                 /\ mailbox' = mailbox /\ message_queues' = message_queues
       /\ WaitChecksStep(c) =>
            /\ (scall'[c].pc = "waiting") <=> Occupies(scall[c].rid, scall[c].user)
            /\ scall'[c].pc # "waiting" =>
                 /\ last'.res \in Errors
                 /\ mailbox' = mailbox /\ message_queues' = message_queues
       /\ WaitExitStep(c) => last'.res \in {"message", "timeout", "cancelled"}]_vars

\* C3 witness: a wait_for_message call of an occupant has returned a message
\* that an occupant's send_message put into its mailbox.
C3_Witness ==
  /\ last.op = "wait_for_message" /\ last.res = "message" /\ last.msg.kind = "msg"
  /\ Occupies(last.rid, last.user)

\* C4 (as claimed, first part): a message that an occupant sends while the
\* partner has exactly one wait_for_message call in flight, registered for the
\* room, is the message that call returns, whenever it returns a message.
C4_SoleWaiterReturnsTheMessage ==
  [][\A c \in Calls :
       (WaitExitStep(c) /\ last'.res = "message") =>
         \A s \in sent :
           (s.solo /\ s.to # s.from /\ s.to = scall[c].user /\ s.rid = scall[c].rid
              /\ s.id > scall[c].since) =>
             (last'.msg.kind = "msg" /\ last'.msg.id = s.id)]_vars

\* The second part of C4: send_message puts the message into no mailbox but the
\* one the sender's partner registered for the room.
OnlyThePartnersMailbox ==
  [][\A c \in Calls :
       (SendChecksStep(c) /\ last'.res = "success") =>
         \A w \in DOMAIN mailbox :
           mailbox'[w] # mailbox[w] =>
             LET to == <<scall[c].rid,
                         get_partner(heap[rooms[scall[c].rid]], scall[c].user)>>
             IN to \in DOMAIN message_queues /\ message_queues[to] = w]_vars

\* C5: a message sent while the recipient has no mailbox registered for the
\* room is never held by, nor returned from, a wait_for_message call of the
\* recipient; no wait holds or returns a message created before it registered;
\* and a wait into whose mailbox nothing was put ends with the timeout outcome
\* (or by cancellation), never with a message.
C5_DroppedIsNeverDelivered ==
  [][/\ \A w \in DOMAIN mailbox' :
          \A n \in MessageIds(mailbox'[w]) :
            /\ n > scall'[w].since
            /\ \A s \in sent' :
                 (~s.registered /\ s.to = scall'[w].user /\ s.rid = scall'[w].rid)
                   => s.id # n
     /\ (last'.op = "wait_for_message" /\ last'.res = "message"
           /\ last'.msg.kind = "msg") =>
          /\ last'.msg.id > last'.since
          /\ \A s \in sent' :
               (~s.registered /\ s.to = last'.user /\ s.rid = last'.rid)
                 => s.id # last'.msg.id
     /\ \A c \in Calls :
          (WaitExitStep(c) /\ mailbox[c] = <<>>) => last'.res \in {"timeout", "cancelled"}
    ]_vars

\* C5 witness: a message was sent to a user who had no mailbox registered, and
\* a wait_for_message call that user registered afterwards has timed out.
C5_Witness ==
  /\ last.op = "wait_for_message" /\ last.res = "timeout"
  /\ \E s \in sent : /\ ~s.registered /\ s.to = last.user /\ s.rid = last.rid
                     /\ s.to # s.from /\ s.id <= last.since

\* C6: when a wait_for_message call that registered a mailbox ends (message,
\* timeout or cancellation), no mailbox is registered for its (room, user); and
\* a registration exists only while a wait for that (room, user) is in flight.
C6_NoStaleRegistration ==
  /\ (last.op = "wait_for_message" /\ last.res \in {"message", "timeout", "cancelled"})
       => <<last.rid, last.user>> \notin DOMAIN message_queues
  /\ \A k \in DOMAIN message_queues :
       LET w == message_queues[k]
       IN /\ scall[w].op = "wait_for_message" /\ scall[w].pc = "waiting"
          /\ k = <<scall[w].rid, scall[w].user>>

\* C6 witness: a wait that had registered a mailbox was cancelled.
C6_Witness ==
  /\ last.op = "wait_for_message" /\ last.res = "cancelled"
  /\ <<last.rid, last.user>> \notin DOMAIN message_queues

AsRegistry(r) == [rooms |-> r.rooms, heap |-> r.heap, user_to_room |-> r.user_to_room]

\* C7: close_room applied twice to an existing room id returns the same room
\* both times, inactive, and the second call leaves the rooms map, the room
\* objects and the user->room index as the first call left them.
C7_CloseRoomIdempotent ==
  \A k \in DOMAIN rooms :
    LET first == close_room(Registry, k)
        second == close_room(AsRegistry(first), k)
    IN /\ first.ret # None /\ second.ret = first.ret
       /\ ~first.heap[first.ret].active
       /\ ~second.heap[second.ret].active
       /\ second.heap[second.ret] = first.heap[first.ret]
       /\ AsRegistry(second) = AsRegistry(first)

\* C7 witness: leave_chat is about to call close_room on a room that a
\* close_room call has already closed.
C7_Witness ==
  \E c \in Calls : /\ scall[c].op = "leave_chat" /\ scall[c].pc = "close_room"
                   /\ scall[c].rid \in DOMAIN rooms
                   /\ ~heap[rooms[scall[c].rid]].active

C9_ActiveRoomsArePaired ==
  \A k \in DOMAIN rooms :
    heap[rooms[k]].active =>
      /\ Paired(k)
      /\ Get(user_to_room, heap[rooms[k]].user1) = k
      /\ Get(user_to_room, heap[rooms[k]].user2) = k

\* C10 (as claimed): send_message returns success, and wait_for_message gets to
\* register and wait, only on a room in state PAIRED.
C10_OnlyPairedRoomsServe ==
  [][\A c \in Calls :
       /\ (SendChecksStep(c) /\ last'.res = "success") => Paired(scall[c].rid)
       /\ (WaitChecksStep(c) /\ scall'[c].pc = "waiting") => Paired(scall[c].rid)]_vars

----------------------------------------------------------------------------
LeaveChecksStep(c) ==
  scall[c].op = "leave_chat" /\ scall[c].pc = "get_room" /\ scall'[c].pc # "get_room"
LeaveCloseStep(c) ==
  scall[c].op = "leave_chat" /\ scall[c].pc = "close_room" /\ scall'[c].pc = "done"

\* C11 (as claimed): a leave_chat call that finds the room it names not in state
\* PAIRED when it looks the room up (unknown id, closed room, or a room with a
\* single occupant) ends there with an error result.
C11_LeaveNeedsPairedRoom ==
  [][\A c \in Calls :
       (LeaveChecksStep(c) /\ ~Paired(scall[c].rid)) =>
         (scall'[c].pc = "done" /\ last'.res \in Errors)]_vars

\* The closed-room case of C11 alone: leave_chat by a user in a slot of a room
\* that is already inactive does not return success.
LeaveOfClosedRoomFails ==
  [][\A c \in Calls :
       (LeaveCloseStep(c) /\ ~heap[scall[c].room].active) => last'.res # "success"]_vars

JoinChecksStep(u) ==
  ucall[u].op = "join_room" /\ ucall[u].pc = "get_room" /\ ucall'[u].pc # "get_room"

C13_LeaveAndDisconnectEndTheSession ==
  [][\A c \in Calls :
       /\ (LeaveCloseStep(c) /\ last'.res = "success") =>
            last'.cid \notin DOMAIN connections'
       /\ (scall[c].op = "disconnect" /\ scall'[c].pc = "done") =>
            scall[c].cid \notin DOMAIN connections']_vars

\* The handle_disconnect half of C13 alone.
DisconnectEndsTheSession ==
  [][\A c \in Calls :
       (scall[c].op = "disconnect" /\ scall'[c].pc = "done") =>
         scall[c].cid \notin DOMAIN connections']_vars

\* the users that have a session
LiveUsers == {connections[h] : h \in DOMAIN connections}

DepartureClosesTheRoom ==
  [][\A c \in Calls :
       /\ (LeaveCloseStep(c) /\ last'.res = "success") =>
            ~heap'[rooms'[scall[c].rid]].active
       /\ (scall[c].op = "disconnect" /\ scall[c].pc = "close_room"
             /\ scall'[c].pc = "done") =>
            ~heap'[scall[c].room].active]_vars

\* The case C14 names, alone: the same for the rooms enter_queue created.
NoMatchedRoomOfTheDeparted ==
  Running = 0 =>
    \A u \in Users :
      (ucall[u].op = "enter_queue" /\ ucall[u].status = "matched"
         /\ heap[rooms[ucall[u].room_id]].active) =>
        {heap[rooms[ucall[u].room_id]].user1,
         heap[rooms[ucall[u].room_id]].user2} \subseteq LiveUsers

MatchedStep(u) ==
  ucall[u].op = "enter_queue" /\ ucall[u].pc = "create_room" /\ ucall'[u].pc = "done"

FoundNotificationsNameTheRoom ==
  [][\A u \in Users :
       MatchedStep(u) =>
         LET R == ucall'[u].room_id
             room == heap'[rooms'[R]]
         IN /\ room.user1 # room.user2
            /\ notified' =
                 {send_notification(connection_id(room.user1), "chatroom.found", R, room.user2),
                  send_notification(connection_id(room.user2), "chatroom.found", R, room.user1)}]_vars

\* a Queue holding maxsize messages, registered by user 2 for room 1
FullQueue == [i \in 1..MailboxMaxSize |-> message_data(i, 1)]
FullMailboxIsLeftAsItIs ==
  Deliver(<<1, 2>> :> 1, 1 :> FullQueue, 1, 1, message_data(MailboxMaxSize + 1, 1))
    = (1 :> FullQueue)

CloseStep(c) ==
  /\ scall[c].op \in {"leave_chat", "disconnect"}
  /\ scall[c].pc = "close_room" /\ scall'[c].pc = "done"
ClosedId(c) ==
  IF scall[c].op = "leave_chat" THEN scall[c].rid ELSE heap[scall[c].room].room_id

\* C17: close_room on an existing room id sets the active flag of the room
\* registered under it to false and changes no other field and no other room;
\* it removes from the user->room index the entries of that room's user1 and
\* user2 and no other; the rooms map keeps every id, so get_room still returns
\* the room; and the wait queue and the mailbox registrations are as before
\* (as are the sessions, but for the one handle_disconnect itself removes).
C17_CloseRoomFootprint ==
  [][\A c \in Calls :
       (CloseStep(c) /\ ClosedId(c) \in DOMAIN rooms) =>
         LET ref == rooms[ClosedId(c)]
         IN /\ rooms' = rooms
            /\ get_room(AsRegistry([rooms |-> rooms', heap |-> heap',
                                    user_to_room |-> user_to_room']), ClosedId(c)) = ref
            /\ heap' = [heap EXCEPT ![ref].active = FALSE]
            /\ user_to_room' = [x \in DOMAIN user_to_room
                                        \ {heap[ref].user1, heap[ref].user2}
                                  |-> user_to_room[x]]
            /\ UNCHANGED <<queue, message_queues>>
            /\ connections' = IF scall[c].op = "disconnect"
                              THEN Pop(connections, scall[c].cid) ELSE connections]_vars

\* C17 witness: a room has been closed by leave_chat while another room is
\* active and its users are still in the user->room index.
C17_Witness ==
  /\ last.op = "leave_chat" /\ last.res = "success"
  /\ \E k \in DOMAIN rooms :
       /\ heap[rooms[k]].active /\ k # last.rid
       /\ Get(user_to_room, heap[rooms[k]].user1) = k

\* the registration key of a wait_for_message call in flight, whether the call's
\* Queue is the one registered under it, and whether a later call's Queue is
WaitKey(w) == <<scall[w].rid, scall[w].user>>
Registered(w) ==
  WaitKey(w) \in DOMAIN message_queues /\ message_queues[WaitKey(w)] = w
Replaced(w) ==
  WaitKey(w) \in DOMAIN message_queues /\ message_queues[WaitKey(w)] # w

\* C18 (as claimed): a second wait_for_message for a (room, user) that has a
\* Queue registered is admitted and its Queue becomes the one registered; from
\* then on nothing is put into the earlier call's Queue, and the earlier call
\* ends only by timeout or cancellation.
C18_ReplacedWaitEndsWithoutMessage ==
  [][/\ \A c \in Calls :
          (WaitChecksStep(c) /\ Occupies(scall[c].rid, scall[c].user)) =>
            /\ scall'[c].pc = "waiting"
            /\ message_queues' = Put(message_queues, WaitKey(c), c)
     /\ \A w \in DOMAIN mailbox :
          (~Registered(w) /\ w \in DOMAIN mailbox') => mailbox'[w] = mailbox[w]
     /\ \A w \in Calls :
          (WaitExitStep(w) /\ Replaced(w)) => last'.res \in {"timeout", "cancelled"}
    ]_vars

\* C18 (amended): as above, but the earlier call ends by timeout or
\* cancellation, or with a message that was in its Queue before it was replaced:
\* with its Queue empty it ends only by timeout or cancellation.
C18_SecondWaitReplacesTheFirst ==
  [][/\ \A c \in Calls :
          (WaitChecksStep(c) /\ Occupies(scall[c].rid, scall[c].user)) =>
            /\ scall'[c].pc = "waiting"
            /\ message_queues' = Put(message_queues, WaitKey(c), c)
     /\ \A w \in DOMAIN mailbox :
          (~Registered(w) /\ w \in DOMAIN mailbox') => mailbox'[w] = mailbox[w]
     /\ \A w \in Calls :
          (WaitExitStep(w) /\ ~Registered(w)) =>
            \/ last'.res \in {"timeout", "cancelled"}
            \/ last'.res = "message" /\ mailbox[w] # <<>> /\ last'.msg = Head(mailbox[w])
    ]_vars

\* C18 witness: two wait_for_message calls of one user for one room are in
\* flight, and a message sent since is in the Queue of the later call only.
C18_Witness ==
  \E w1, w2 \in DOMAIN mailbox :
    /\ w1 # w2 /\ WaitKey(w1) = WaitKey(w2) /\ Registered(w2)
    /\ mailbox[w1] = <<>>
    /\ \E i \in 1..Len(mailbox[w2]) : mailbox[w2][i].kind = "msg"

\* C19 (as claimed): when handle_disconnect closes the room of its user and the
\* room is active with two distinct users, partner.disconnected is sent to the connection of the user's
\* partner, carrying the room's id.
C19_DisconnectTellsThePartner ==
  [][\A c \in Calls :
       (scall[c].op = "disconnect" /\ CloseStep(c) /\ heap[scall[c].room].active
          /\ heap[scall[c].room].user1 # heap[scall[c].room].user2) =>
         notified' = {send_notification(
                        connection_id(get_partner(heap[scall[c].room], scall[c].user)),
                        "partner.disconnected", heap[scall[c].room].room_id, None)}]_vars

\* What C19 says of leave_chat: a successful leave_chat sends
\* partner.disconnected for the room to the partner's connection.
LeaveTellsThePartner ==
  [][\A c \in Calls :
       (LeaveCloseStep(c) /\ last'.res = "success") =>
         notified' = {send_notification(connection_id(scall[c].partner),
                                        "partner.disconnected", scall[c].rid, None)}]_vars

\* C20 (as claimed): the cleanup at the end of a wait_for_message call removes
\* no registration but its own: the Queue of another wait_for_message call in
\* flight that is registered stays registered when the call ends.
C20_CleanupRemovesOwnMailboxOnly ==
  [][\A c \in Calls :
       WaitExitStep(c) =>
         \A w \in Calls \ {c} :
           (scall[w].op = "wait_for_message" /\ scall[w].pc = "waiting" /\ Registered(w)) =>
             /\ WaitKey(w) \in DOMAIN message_queues'
             /\ message_queues'[WaitKey(w)] = w]_vars

\* The 'Room is full' part of C12 alone.
FullRoomAdmitsNoOne ==
  [][\A u \in Users :
       (JoinChecksStep(u) /\ ucall[u].rid \in DOMAIN rooms
          /\ heap[rooms[ucall[u].rid]].active
          /\ Len(current_users(heap[rooms[ucall[u].rid]], connections)) >= 2) =>
         /\ ucall'[u].status = "error_full"
         /\ heap' = heap /\ rooms' = rooms /\ user_to_room' = user_to_room]_vars

----------------------------------------------------------------------------
WaitingStep(u) ==
  ucall[u].op = "enter_queue" /\ ucall[u].pc = "get_queue_length" /\ ucall'[u].pc = "done"

PairedIsNotToldWaiting ==
  [][\A u \in Users :
       WaitingStep(u) =>
         \A v \in Users : u \notin {ucall[v].pair[i] : i \in DOMAIN ucall[v].pair}]_vars

\* C22 (as claimed): every id of the rooms map is the room_id of the room
\* registered under it, no room is registered under two ids, and
\* get_active_room_count counts every active room once.
C22_OneIdPerRoom ==
  /\ \A k \in DOMAIN rooms : heap[rooms[k]].room_id = k
  /\ \A k1, k2 \in DOMAIN rooms : rooms[k1] = rooms[k2] => k1 = k2
  /\ get_active_room_count(Registry)
       = Cardinality({rooms[k] : k \in {x \in DOMAIN rooms : heap[rooms[x]].active}})

\* the join_room calls that have returned `status` for room id k
JoinedAs(k, status) ==
  {u \in Users : /\ ucall[u].op = "join_room" /\ ucall[u].pc = "done"
                 /\ ucall[u].rid = k /\ ucall[u].status = status}

AtMostOneRoomCreated ==
  \A k \in ChosenIds \cup DOMAIN rooms : Cardinality(JoinedAs(k, "room_created")) <= 1
====
